---- MODULE Spec2Model ----
(***************************************************************************)
(* pycryptopro: wrappers around the certmgr and cryptcp command line       *)
(* tools.  Two variants of the module live in the repository: the packaged *)
(* one (src/pycryptopro/utils.py) and the standalone one (src/utils.py).   *)
(*                                                                         *)
(* Text (stdout, stderr, parsed values) is a sequence of tokens.  A token  *)
(* is a piece of text the code never looks inside: the characters and      *)
(* words the code searches for (":", "\n", "0x", "[", "]", "==...",        *)
(* "<digits>-------", blanks) are tokens of their own.                     *)
(* stdout and stderr are the byte strings Popen.communicate() gives under  *)
(* Python 2, the language of both variants.                                *)
(***************************************************************************)
EXTENDS Integers, Sequences, FiniteSets, TLC

VARIABLES
  pc,       \* "idle" between calls, "done" when a call has finished
  call,     \* the finished call: its arguments and what the tool printed
  ran,      \* what run_command gave back to the method that called it
  outcome,  \* what the method gave back to its caller
  binary,   \* the attribute binary of the Certmgr and of the Cryptcp instance
  seen      \* a finished call and its outcome, kept by the caller

vars == <<pc, call, ran, outcome, binary, seen>>

-----------------------------------------------------------------------------
(* Bounds *)

\* most certificate blocks in one certmgr output
MaxBlocks == 2
\* largest value of the limit argument of Certmgr.list
MaxLimit == 2

-----------------------------------------------------------------------------
(* Text primitives *)

NL == "\n"

\* whitespace tokens, removed by str.strip()
IsSpace(t) == t \in {" ", "  ", NL}

\* str.lower() on the tokens that carry upper-case letters
LowerMap ==
  [t \in {"Issuer", "Subject", "Serial", "SHA1", "Hash", "Not", "PrivateKey",
          "Link", "No", "ErrorCode", "ResultCode", "ReturnCode",
          "0x200001F9", "0x2000012D", "CN=CA", "O=Org",
          "CN=CA2", "E=ca@x", "CN=User", "CN=http", "UTC"} |->
     CASE t = "Issuer" -> "issuer"
       [] t = "Subject" -> "subject"
       [] t = "Serial" -> "serial"
       [] t = "SHA1" -> "sha1"
       [] t = "Hash" -> "hash"
       [] t = "Not" -> "not"
       [] t = "PrivateKey" -> "privatekey"
       [] t = "Link" -> "link"
       [] t = "No" -> "no"
       [] t = "ErrorCode" -> "errorcode"
       [] t = "ResultCode" -> "resultcode"
       [] t = "ReturnCode" -> "returncode"
       [] t = "0x200001F9" -> "0x200001f9"
       [] t = "0x2000012D" -> "0x2000012d"
       [] t = "CN=CA" -> "cn=ca"
       [] t = "O=Org" -> "o=org"
       [] t = "CN=CA2" -> "cn=ca2"
       [] t = "E=ca@x" -> "e=ca@x"
       [] t = "CN=User" -> "cn=user"
       [] t = "CN=http" -> "cn=http"
       [] t = "UTC" -> "utc"]

LowerTok(t) == IF t \in DOMAIN LowerMap THEN LowerMap[t] ELSE t

\* str.lower()
Lower(s) == [i \in 1..Len(s) |-> LowerTok(s[i])]

\* str.strip(): leading and trailing whitespace removed
RECURSIVE LStrip(_)
LStrip(s) == IF s # <<>> /\ IsSpace(Head(s)) THEN LStrip(Tail(s)) ELSE s

RECURSIVE RStrip(_)
RStrip(s) ==
  IF s # <<>> /\ IsSpace(s[Len(s)]) THEN RStrip(SubSeq(s, 1, Len(s) - 1)) ELSE s

Strip(s) == RStrip(LStrip(s))

\* str.replace(old, new) for a one-token old
Replace(s, old, new) == [i \in 1..Len(s) |-> IF s[i] = old THEN new ELSE s[i]]

\* str.replace(old, '') for a one-token old
Remove(s, old) == SelectSeq(s, LAMBDA t : t # old)

\* x in s, for a one-token x
Has(s, x) == \E i \in 1..Len(s) : s[i] = x

\* positions of the delimiter tokens of D in s
DelimPos(s, D) == {i \in 1..Len(s) : s[i] \in D}

\* str.split / re.split on the delimiter tokens D: the pieces between them
RECURSIVE Split(_, _)
Split(s, D) ==
  LET P == DelimPos(s, D) IN
  IF P = {} THEN <<s>>
  ELSE LET i == CHOOSE k \in P : \A j \in P : k <= j
       IN <<SubSeq(s, 1, i - 1)>> \o Split(SubSeq(s, i + 1, Len(s)), D)

\* str.split(':', 1): at the first colon only
SplitFirst(s, d) ==
  LET P == DelimPos(s, {d}) IN
  IF P = {} THEN <<s>>
  ELSE LET i == CHOOSE k \in P : \A j \in P : k <= j
       IN <<SubSeq(s, 1, i - 1), SubSeq(s, i + 1, Len(s))>>

\* sequence concatenation of a sequence of sequences
RECURSIVE Flat(_)
Flat(ss) == IF ss = <<>> THEN <<>> ELSE Head(ss) \o Flat(Tail(ss))

-----------------------------------------------------------------------------
(* Outcomes of a call: a returned value or a raised exception *)

NoCert == <<>>

\* a normal return; vtype names the Python type of the value
Ret(vtype, text, certs, flag) ==
  [kind |-> "return", exc |-> "", vtype |-> vtype, text |-> text,
   certs |-> certs, flag |-> flag]

RetNone == Ret("None", <<>>, <<>>, FALSE)
RetText(t) == Ret("str", t, <<>>, FALSE)
RetList(cs) == Ret("list", <<>>, cs, FALSE)
RetCert(c) == Ret("Certificate", <<>>, <<c>>, FALSE)
RetBool(b) == Ret("bool", <<>>, <<>>, b)

\* raise exc(text)
Raise(exc, text) ==
  [kind |-> "raise", exc |-> exc, vtype |-> "", text |-> text,
   certs |-> <<>>, flag |-> FALSE]

-----------------------------------------------------------------------------
(* ShellCommand *)

\* ShellParseResponse with "'Empty certificate list' in stderr" for the
\* startswith test
ShellParseResponseAnywhere(stdout, stderr) ==
  IF stderr # <<>>
    THEN IF Has(stderr, "Empty certificate list")
           THEN RetNone
           ELSE Raise("ShellCommandError", stderr)
    ELSE RetText(stdout)

\* ShellCommand._parse_response, inherited by Certmgr
ShellParseResponse(stdout, stderr) ==
  IF stderr # <<>>
    THEN IF Head(stderr) = "Empty certificate list"
           THEN RetNone
           ELSE Raise("ShellCommandError", stderr)
    ELSE RetText(stdout)

\* '%s' % v for the integers the model passes
IntStr(k) == <<"0", "1", "2", "3", "4", "5">>[k + 1]

\* Python values passed as arguments: None, an int, a str; str is what
\* '%s' % v prints
PyNone == [type |-> "NoneType", int |-> 0, str |-> "None"]
PyInt(k) == [type |-> "int", int |-> k, str |-> IntStr(k)]
PyStr(x) == [type |-> "str", int |-> 0, str |-> x]

\* the truth value of a Python value
Truthy(v) ==
  CASE v.type = "NoneType" -> FALSE
    [] v.type = "int" -> v.int # 0
    [] v.type = "str" -> v.str # ""

\* the named parameters of run_command: '-%s %s' % (k, v) for every keyword
\* argument whose value is not None
NamedParams(kwargs) ==
  {<<k, kwargs[k].str>> : k \in {n \in DOMAIN kwargs : kwargs[n] # PyNone}}

\* the command line run_command hands to Popen
RunCommandCmd(bin, command, args, kwargs) ==
  [binary |-> bin, command |-> command, params |-> args,
   named |-> NamedParams(kwargs)]

-----------------------------------------------------------------------------
(* Certmgr._parse *)

\* the tokens matched by the separator r'\d+-{7}'
SepTokens == {"1-------", "2-------", "3-------", "4-------"}

\* line.startswith('==')
StartsWithRule(line) == line # <<>> /\ Head(line) = "====="

\* Certmgr._parse_line (packaged), Certmgr._get_key_and_val (standalone):
\* key, val = line.split(':', 1) fails to unpack a line with no colon
ParseLine(line) ==
  LET parts == SplitFirst(line, ":") IN
  IF Len(parts) # 2 THEN [exc |-> "ValueError", key |-> <<>>, val |-> <<>>]
  ELSE LET key == Replace(Lower(Strip(parts[1])), " ", "_")
           val == Strip(parts[2])
       IN [exc |-> "", key |-> key,
           val |-> IF key \in {<<"sha1", "_", "hash">>, <<"serial">>}
                     THEN Remove(val, "0x") ELSE val]

\* the loop over the lines of one block, filling cert_data
RECURSIVE ParseBlockLines(_, _, _)
ParseBlockLines(lines, data, variant) ==
  IF lines = <<>> THEN [exc |-> "", data |-> data]
  ELSE LET line == Head(lines) IN
    IF line = <<>> \/ (variant = "packaged" /\ ~Has(line, ":"))
      THEN ParseBlockLines(Tail(lines), data, variant)
    ELSE IF StartsWithRule(line) THEN [exc |-> "", data |-> data]
    ELSE LET kv == ParseLine(line) IN
      IF kv.exc # "" THEN [exc |-> kv.exc, data |-> data]
      ELSE ParseBlockLines(Tail(lines), (kv.key :> kv.val) @@ data, variant)

\* the day/month/year strings the model's outputs carry
DateMap ==
  [t \in {"19/12/2014", "19/12/2015", "01/02/2016", "01/02/2017"} |->
     CASE t = "19/12/2014" -> [day |-> 19, month |-> 12, year |-> 2014]
       [] t = "19/12/2015" -> [day |-> 19, month |-> 12, year |-> 2015]
       [] t = "01/02/2016" -> [day |-> 1, month |-> 2, year |-> 2016]
       [] t = "01/02/2017" -> [day |-> 1, month |-> 2, year |-> 2017]]

\* the two-digit strings the model's outputs carry
NumMap ==
  [t \in {"00", "12", "34", "56", "59"} |->
     CASE t = "00" -> 0 [] t = "12" -> 12 [] t = "34" -> 34
       [] t = "56" -> 56 [] t = "59" -> 59]

NoDate == [year |-> 0, month |-> 0, day |-> 0, hour |-> 0, minute |-> 0, second |-> 0]

\* datetime.strptime(string, '%d/%m/%Y %H:%M:%S UTC')
StrToDatetime(s) ==
  IF /\ Len(s) = 9
     /\ s[1] \in DOMAIN DateMap
     /\ s[2] \in {" ", "  "}
     /\ s[3] \in DOMAIN NumMap /\ NumMap[s[3]] < 24
     /\ s[4] = ":"
     /\ s[5] \in DOMAIN NumMap
     /\ s[6] = ":"
     /\ s[7] \in DOMAIN NumMap
     /\ s[8] \in {" ", "  "}
     /\ s[9] = "UTC"
    THEN [exc |-> "",
          dt |-> [year |-> DateMap[s[1]].year, month |-> DateMap[s[1]].month,
                  day |-> DateMap[s[1]].day, hour |-> NumMap[s[3]],
                  minute |-> NumMap[s[5]], second |-> NumMap[s[7]]]]
    ELSE [exc |-> "ValueError", dt |-> NoDate]

K_sha1 == <<"sha1", "_", "hash">>
K_serial == <<"serial">>
K_before == <<"not", "_", "valid", "_", "before">>
K_after == <<"not", "_", "valid", "_", "after">>
K_issuer == <<"issuer">>
K_subject == <<"subject">>

\* Certmgr._make_cert_object: the arguments of Certificate(...) are evaluated
\* in order, a missing key raises KeyError, a bad timestamp ValueError
MakeCertObject(data) ==
  LET has(k) == k \in DOMAIN data
      bad(e) == [exc |-> e, cert |-> NoCert]
  IN
  IF ~has(K_sha1) \/ ~has(K_serial) \/ ~has(K_before) THEN bad("KeyError")
  ELSE IF StrToDatetime(data[K_before]).exc # "" THEN bad("ValueError")
  ELSE IF ~has(K_after) THEN bad("KeyError")
  ELSE IF StrToDatetime(data[K_after]).exc # "" THEN bad("ValueError")
  ELSE IF ~has(K_issuer) \/ ~has(K_subject) THEN bad("KeyError")
  ELSE [exc |-> "",
        cert |-> [thumbprint |-> data[K_sha1],
                  serial |-> data[K_serial],
                  valid_from |-> StrToDatetime(data[K_before]).dt,
                  valid_to |-> StrToDatetime(data[K_after]).dt,
                  issuer |-> data[K_issuer],
                  subject |-> data[K_subject]]]

\* NewCertData with cert_data created once, before the loop over the blocks
NewCertDataKept(previous) == previous

\* cert_data = {} at the start of every block
NewCertData(previous) == <<>>

\* LimitReached with the test made one block late
LimitReachedLate(limit, i) ==
  Truthy(limit) /\ limit.type = "int" /\ i = limit.int + 1

\* "if limit and i == limit: break"
LimitReached(limit, i) == Truthy(limit) /\ limit.type = "int" /\ limit.int = i

\* the loop of Certmgr._parse over the blocks, from block i on
RECURSIVE ParseItems(_, _, _, _, _, _)
ParseItems(items, i, res, limit, variant, previous) ==
  IF items = <<>> THEN RetList(res)
  ELSE LET p == ParseBlockLines(Split(Head(items), {NL}),
                                NewCertData(previous), variant)
       IN IF p.exc # "" THEN Raise(p.exc, <<>>)
          ELSE LET c == MakeCertObject(p.data) IN
            IF c.exc # "" THEN Raise(c.exc, <<>>)
            ELSE IF LimitReached(limit, i)
                   THEN RetList(Append(res, c.cert))
                   ELSE ParseItems(Tail(items), i + 1, Append(res, c.cert),
                                   limit, variant, p.data)

\* Certmgr._parse(text, limit)
Parse(text, limit, variant) ==
  ParseItems(Tail(Split(text, SepTokens)), 1, <<>>, limit, variant, <<>>)

\* kwargs.pop(name, None): the value and the remaining dictionary
PopValue(kwargs, name) == IF name \in DOMAIN kwargs THEN kwargs[name] ELSE PyNone
PopRest(kwargs, name) == [k \in DOMAIN kwargs \ {name} |-> kwargs[k]]

\* the keyword arguments Certmgr.list hands on to run_command
ListForwarded(kwargs) == PopRest(kwargs, "limit")

\* Certmgr.list after the tool ran: r is what run_command gave
ListResult(r, limit, variant) ==
  IF r.kind = "raise" THEN r
  ELSE IF r.vtype = "str" /\ r.text # <<>> THEN Parse(r.text, limit, variant)
  ELSE RetList(<<>>)

\* GetResult with res[-1] for res[0]
GetResultLast(res) ==
  IF res.kind = "raise" THEN res
  ELSE IF res.certs # <<>> THEN RetCert(res.certs[Len(res.certs)])
  ELSE RetNone

\* Certmgr.get after list returned
GetResult(res) ==
  IF res.kind = "raise" THEN res
  ELSE IF res.certs # <<>> THEN RetCert(res.certs[1])
  ELSE RetNone

-----------------------------------------------------------------------------
(* What the certmgr tool prints: the outputs the model feeds to the wrapper *)

\* one "Key   : value" line of a certificate block
FieldLine(key, val) == key \o <<" ", ":", " ">> \o val \o <<NL>>

RK_sha1 == <<"SHA1", " ", "Hash">>
RK_before == <<"Not", " ", "valid", " ", "before">>
RK_after == <<"Not", " ", "valid", " ", "after">>

Stamp(date, h, m, sec) == <<date, "  ", h, ":", m, ":", sec, " ", "UTC">>

\* The sample blocks.  lines is the printed block; cert is the record the
\* block stands for; wellformed tells which variants of the module can read
\* it; missing tells that a required field is absent.
SampleBlocks == <<
  \* 1: the usual block
  [lines |-> Flat(<<
      FieldLine(<<"Issuer">>, <<"CN=CA", ",", " ", "O=Org">>),
      FieldLine(<<"Subject">>, <<"CN=User">>),
      FieldLine(<<"Serial">>, <<"0x", "11">>),
      FieldLine(RK_sha1, <<"0x", "a1b2">>),
      FieldLine(RK_before, Stamp("19/12/2014", "12", "34", "56")),
      FieldLine(RK_after, Stamp("19/12/2015", "12", "34", "56")),
      FieldLine(<<"PrivateKey", " ", "Link">>, <<"No">>) >>),
   cert |-> [thumbprint |-> <<"a1b2">>, serial |-> <<"11">>,
             valid_from |-> [year |-> 2014, month |-> 12, day |-> 19,
                             hour |-> 12, minute |-> 34, second |-> 56],
             valid_to |-> [year |-> 2015, month |-> 12, day |-> 19,
                           hour |-> 12, minute |-> 34, second |-> 56],
             issuer |-> <<"CN=CA", ",", " ", "O=Org">>,
             subject |-> <<"CN=User">>],
   wellformed |-> {"packaged", "standalone"}, missing |-> FALSE],
  \* 2: another order, values with colons, a serial with two "0x"
  [lines |-> Flat(<<
      FieldLine(RK_sha1, <<"0x", "c3d4">>),
      FieldLine(<<"Serial">>, <<"0x", "22", "0x", "33">>),
      FieldLine(RK_after, Stamp("01/02/2017", "00", "00", "59")),
      FieldLine(RK_before, Stamp("01/02/2016", "00", "00", "59")),
      FieldLine(<<"Subject">>, <<"CN=http", ":", "//host", ":", "80">>),
      FieldLine(<<"Issuer">>, <<"E=ca@x", ",", " ", "CN=CA2">>) >>),
   cert |-> [thumbprint |-> <<"c3d4">>, serial |-> <<"22", "33">>,
             valid_from |-> [year |-> 2016, month |-> 2, day |-> 1,
                             hour |-> 0, minute |-> 0, second |-> 59],
             valid_to |-> [year |-> 2017, month |-> 2, day |-> 1,
                           hour |-> 0, minute |-> 0, second |-> 59],
             issuer |-> <<"E=ca@x", ",", " ", "CN=CA2">>,
             subject |-> <<"CN=http", ":", "//host", ":", "80">>],
   wellformed |-> {"packaged", "standalone"}, missing |-> FALSE],
  \* 3: a block with a continuation line that has no colon
  [lines |-> Flat(<<
      FieldLine(<<"Issuer">>, <<"CN=CA2">>),
      FieldLine(<<"Subject">>, <<"CN=User">>),
      FieldLine(<<"Serial">>, <<"0x", "33">>),
      FieldLine(RK_sha1, <<"0x", "e5f6">>),
      FieldLine(<<"Extended", " ", "Key", " ", "Usage">>, <<"1.3.6.1">>),
      <<"  ", "1.3.6.2", NL>>,
      FieldLine(RK_before, Stamp("19/12/2014", "00", "12", "00")),
      FieldLine(RK_after, Stamp("01/02/2016", "12", "00", "34")) >>),
   cert |-> [thumbprint |-> <<"e5f6">>, serial |-> <<"33">>,
             valid_from |-> [year |-> 2014, month |-> 12, day |-> 19,
                             hour |-> 0, minute |-> 12, second |-> 0],
             valid_to |-> [year |-> 2016, month |-> 2, day |-> 1,
                           hour |-> 12, minute |-> 0, second |-> 34],
             issuer |-> <<"CN=CA2">>,
             subject |-> <<"CN=User">>],
   wellformed |-> {"packaged"}, missing |-> FALSE],
  \* 4: a block without its Serial line
  [lines |-> Flat(<<
      FieldLine(<<"Issuer">>, <<"CN=CA">>),
      FieldLine(<<"Subject">>, <<"CN=User">>),
      FieldLine(RK_sha1, <<"0x", "0708">>),
      FieldLine(RK_before, Stamp("19/12/2014", "12", "34", "56")),
      FieldLine(RK_after, Stamp("19/12/2015", "12", "34", "56")) >>),
   cert |-> [thumbprint |-> <<"0708">>, serial |-> <<>>,
             valid_from |-> NoDate, valid_to |-> NoDate,
             issuer |-> <<"CN=CA">>, subject |-> <<"CN=User">>],
   wellformed |-> {}, missing |-> TRUE],
  \* 5: a block whose "Not valid after" is no timestamp
  [lines |-> Flat(<<
      FieldLine(<<"Issuer">>, <<"CN=CA">>),
      FieldLine(<<"Subject">>, <<"CN=User">>),
      FieldLine(<<"Serial">>, <<"0x", "55">>),
      FieldLine(RK_sha1, <<"0x", "090a">>),
      FieldLine(RK_before, Stamp("19/12/2014", "12", "34", "56")),
      FieldLine(RK_after, <<"never">>) >>),
   cert |-> [thumbprint |-> <<"090a">>, serial |-> <<"55">>,
             valid_from |-> NoDate, valid_to |-> NoDate,
             issuer |-> <<"CN=CA">>, subject |-> <<"CN=User">>],
   wellformed |-> {}, missing |-> FALSE] >>

\* the banner certmgr prints before the first block
Banner == <<"Certmgr 1.0", NL, "=====", NL>>

\* what certmgr prints after the last block
Footer == <<"=====", NL, NL, "[", "ErrorCode", ":", " ", "0x00000000", "]", NL>>

\* the separator line of the i-th block
SepLine(i) == <<(<<"1-------", "2-------", "3-------", "4-------">>)[i], NL>>

\* the listing of the sample blocks bs (indexes into SampleBlocks)
Listing(bs, footer) ==
  Banner
  \o Flat([i \in 1..Len(bs) |-> SepLine(i) \o SampleBlocks[bs[i]].lines])
  \o (IF footer THEN Footer ELSE <<>>)

\* the sequences of at most MaxBlocks sample blocks
BlockChoices ==
  UNION {[1..n -> 1..Len(SampleBlocks)] : n \in 0..MaxBlocks}

\* what certmgr writes to stderr
CertmgrErrs ==
  {<<"Empty certificate list", NL>>,
   <<"Empty certificate list", " ", "in store", NL>>,
   <<"Error", ":", " ", "Empty certificate list", NL>>,
   <<"Can not open store", NL>>}

\* one run of certmgr: its stdout and stderr (blocks tells how stdout was made)
CertmgrRuns ==
  {[stdout |-> Listing(bs, f), stderr |-> <<>>, blocks |-> bs] :
      bs \in BlockChoices, f \in BOOLEAN}
  \cup {[stdout |-> <<>>, stderr |-> <<>>, blocks |-> <<>>]}
  \cup {[stdout |-> o, stderr |-> e, blocks |-> <<>>] :
          o \in {<<>>, Banner}, e \in CertmgrErrs}
  \cup {[stdout |-> Listing(<<1>>, TRUE), stderr |-> e, blocks |-> <<1>>] :
          e \in CertmgrErrs}

-----------------------------------------------------------------------------
(* The calls *)

Variants == {"packaged", "standalone"}

NoCmd == [binary |-> "", command |-> "", params |-> <<>>, named |-> {}]

NoCall ==
  [variant |-> "", cls |-> "", op |-> "", limit |-> PyNone, named |-> {},
   flags |-> {}, stdout |-> <<>>, stderr |-> <<>>, blocks |-> <<>>,
   cmd |-> NoCmd]

NoOutcome == Ret("", <<>>, <<>>, FALSE)

NoSeen == [call |-> NoCall, outcome |-> NoOutcome]

\* the default binary of each wrapper's constructor
DefaultBinary ==
  [c \in {"Certmgr", "Cryptcp"} |->
     IF c = "Certmgr" THEN "/opt/cprocsp/bin/amd64/certmgr"
                      ELSE "/opt/cprocsp/bin/amd64/cryptcp"]

Init ==
  /\ pc = "idle"
  /\ call = NoCall
  /\ ran = NoOutcome
  /\ outcome = NoOutcome
  /\ binary = DefaultBinary
  /\ seen = NoSeen

\* AttrsAfterCall with run_command keeping its command in self.binary
AttrsAfterCallStoresCommand(cls, cmd) ==
  [binary EXCEPT ![cls] = cmd.binary \o " " \o cmd.command]

\* run_command and the methods that call it assign no attribute of self
AttrsAfterCall(cls, cmd) == binary

\* one finished call: what was asked, what the tool printed, what came out
Finish(c, r, out) ==
  /\ pc' = "done"
  /\ call' = c
  /\ ran' = r
  /\ outcome' = out
  /\ binary' = AttrsAfterCall(c.cls, c.cmd)
  /\ UNCHANGED seen

\* the values of limit a caller passes
Limits == {PyNone} \cup {PyInt(k) : k \in 0..MaxLimit}

\* the keyword arguments a caller passes to Certmgr.list
ListKwargs ==
  {kw \in UNION {[D -> Limits \cup {PyStr("uMy")}] : D \in SUBSET {"store", "limit"}} :
     /\ "store" \in DOMAIN kw => kw["store"] \in {PyNone, PyStr("uMy")}
     /\ "limit" \in DOMAIN kw => kw["limit"] \in Limits}

\* Certmgr.list(**kwargs)
CertmgrList ==
  /\ pc = "idle"
  /\ \E v \in Variants, kw \in ListKwargs, run \in CertmgrRuns :
       LET limit == PopValue(kw, "limit")
           cmd == RunCommandCmd(binary["Certmgr"], "-list", <<>>, ListForwarded(kw))
           r == ShellParseResponse(run.stdout, run.stderr)
       IN Finish([variant |-> v, cls |-> "Certmgr", op |-> "list",
                  limit |-> limit, named |-> NamedParams(kw), flags |-> {},
                  stdout |-> run.stdout, stderr |-> run.stderr,
                  blocks |-> run.blocks, cmd |-> cmd],
                 r, ListResult(r, limit, v))

\* Certmgr.get(thumbprint, store)
CertmgrGet ==
  /\ pc = "idle"
  /\ \E v \in Variants, store \in {"uMy", "My"}, run \in CertmgrRuns :
       LET kw == [k \in {"thumbprint", "store"} |->
                    IF k = "store" THEN PyStr(store) ELSE PyStr("a1b2")]
           limit == PopValue(kw, "limit")
           cmd == RunCommandCmd(binary["Certmgr"], "-list", <<>>, ListForwarded(kw))
           r == ShellParseResponse(run.stdout, run.stderr)
       IN Finish([variant |-> v, cls |-> "Certmgr", op |-> "get",
                  limit |-> limit, named |-> NamedParams(kw), flags |-> {},
                  stdout |-> run.stdout, stderr |-> run.stderr,
                  blocks |-> run.blocks, cmd |-> cmd],
                 r, GetResult(ListResult(r, limit, v)))

\* what certmgr prints for -inst and -delete
InstRuns ==
  {[stdout |-> o, stderr |-> e] :
     o \in {<<>>, Banner, Footer},
     e \in {<<>>} \cup CertmgrErrs}

\* the keyword arguments a caller passes to Certmgr.inst and Certmgr.delete
InstKwargs ==
  {[k \in {"store", "file"} |-> IF k = "store" THEN s ELSE PyStr("cert.cer")] :
     s \in {PyNone, PyStr("uMy")}}

\* Certmgr.inst(**kwargs) and Certmgr.delete(**kwargs)
CertmgrInstDelete ==
  /\ pc = "idle"
  /\ \E v \in Variants, op \in {"inst", "delete"}, kw \in InstKwargs,
        run \in InstRuns :
       LET cmd == RunCommandCmd(binary["Certmgr"],
                                IF op = "inst" THEN "-inst" ELSE "-delete",
                                <<>>, kw)
       IN Finish([variant |-> v, cls |-> "Certmgr", op |-> op,
                  limit |-> PyNone, named |-> NamedParams(kw), flags |-> {},
                  stdout |-> run.stdout, stderr |-> run.stderr,
                  blocks |-> <<>>, cmd |-> cmd],
                 ShellParseResponse(run.stdout, run.stderr),
                 ShellParseResponse(run.stdout, run.stderr))

-----------------------------------------------------------------------------
(* Cryptcp: the regular expressions *)

\* text[i..] starts with the tokens pre
PrefixAt(text, i, pre) ==
  /\ i + Len(pre) - 1 <= Len(text)
  /\ SubSeq(text, i, i + Len(pre) - 1) = pre

\* where a group '(.+)' that starts at g and is followed by ']' can end:
\* '.' matches every token but the newline
GroupEnds(text, g) ==
  {j \in (g + 1)..Len(text) :
     text[j] = "]" /\ \A k \in g..(j - 1) : text[k] # NL}

\* re.search of '<pre>(.+)]' for the prefixes pres (all of one length):
\* the leftmost match, its group as long as possible
SearchCode(text, pres) ==
  LET n == Len(CHOOSE pre \in pres : TRUE)
      starts == {i \in 1..Len(text) :
                   /\ \E pre \in pres : PrefixAt(text, i, pre)
                   /\ GroupEnds(text, i + n) # {}}
  IN IF starts = {} THEN [found |-> FALSE, group |-> <<>>]
     ELSE LET i == CHOOSE a \in starts : \A b \in starts : a <= b
              E == GroupEnds(text, i + n)
              j == CHOOSE a \in E : \A b \in E : a >= b
          IN [found |-> TRUE, group |-> SubSeq(text, i + n, j - 1)]

\* x in text, for a sequence of tokens x
Contains(text, x) == \E i \in 1..Len(text) : PrefixAt(text, i, x)

\* re.search(r'Signer: (.*)', stdout): the rest of the first such line
SearchSigner(text) ==
  LET pre == <<"Signer", ":", " ">>
      starts == {i \in 1..Len(text) : PrefixAt(text, i, pre)}
  IN IF starts = {} THEN [found |-> FALSE, group |-> <<>>]
     ELSE LET i == CHOOSE a \in starts : \A b \in starts : a <= b
              g == i + Len(pre)
              nls == {k \in g..Len(text) : text[k] = NL}
              e == IF nls = {} THEN Len(text) + 1
                   ELSE CHOOSE a \in nls : \A b \in nls : a <= b
          IN [found |-> TRUE, group |-> SubSeq(text, g, e - 1)]

-----------------------------------------------------------------------------
(* Cryptcp, packaged variant *)

\* GetResultCode without the .lower()
GetResultCodeCaseSensitive(r) ==
  IF r.vtype # "str" THEN Raise("TypeError", <<>>)
  ELSE LET m == SearchCode(r.text, {<<"[", "ErrorCode", ":", " ">>,
                                    <<"[", "ResultCode", ":", " ">>})
       IN IF m.found THEN RetText(m.group)
          ELSE Raise("ShellCommandError", r.text)

\* Cryptcp._get_result_code: r is the value run_command returned
GetResultCode(r) ==
  IF r.vtype # "str" THEN Raise("TypeError", <<>>)
  ELSE LET m == SearchCode(r.text, {<<"[", "ErrorCode", ":", " ">>,
                                    <<"[", "ResultCode", ":", " ">>})
       IN IF m.found THEN RetText(Lower(m.group))
          ELSE Raise("ShellCommandError", r.text)

\* Cryptcp._get_exception_class: "" when the code has no class
GetExceptionClass(error_code) ==
  CASE error_code = <<"0x20000133">> -> "CertificateChainNotChecked"
    [] error_code = <<"0x200001f9">> -> "InvalidSignature"
    [] error_code = <<"0x2000012d">> -> "CertificatesNotFound"
    [] OTHER -> ""

\* what Cryptcp._parse_response does with a code that has no exception class:
\* the method ends without a return statement
UnknownCodeResult(stdout) == RetNone

\* Cryptcp._parse_response(stdout, stderr)
CryptcpParseResponse(stdout, stderr) ==
  LET rc == GetResultCode(RetText(stdout)) IN
  IF rc.kind = "raise" THEN rc
  ELSE IF rc.text = <<"0">> \/ rc.text = <<"0x00000000">> THEN RetText(stdout)
  ELSE IF GetExceptionClass(rc.text) # ""
         THEN Raise(GetExceptionClass(rc.text), stdout)
  ELSE UnknownCodeResult(stdout)

\* Cryptcp._get_signer_data: r is the value run_command returned
GetSignerData(r) ==
  IF r.vtype # "str" THEN Raise("TypeError", <<>>)
  ELSE LET m == SearchSigner(r.text)
       IN IF m.found THEN RetText(m.group) ELSE Raise("AttributeError", <<>>)

\* Cryptcp.sign after run_command: the method returns nothing
SignResult(r) == IF r.kind = "raise" THEN r ELSE RetNone

\* Cryptcp.verify after run_command
VerifyResult(r) == IF r.kind = "raise" THEN r ELSE GetSignerData(r)

\* VerifyMessageResult with returnCode ignored
VerifyMessageResultSigner(r, returnCode) ==
  IF r.kind = "raise" THEN r ELSE GetSignerData(r)

\* Cryptcp.verifyMessage after run_command
VerifyMessageResult(r, returnCode) ==
  IF r.kind = "raise" THEN r
  ELSE IF returnCode THEN GetResultCode(r)
  ELSE GetSignerData(r)

-----------------------------------------------------------------------------
(* Cryptcp, standalone variant *)

\* Cryptcp._parse_response(stdout, stderr) of src/utils.py
StandaloneParseResponse(stdout, stderr) ==
  IF Contains(stdout, <<"[", "ReturnCode", ":", " ", "0", "]">>)
    THEN RetText(stdout)
  ELSE LET m == SearchCode(stdout, {<<"ErrorCode", ":", " ">>}) IN
    IF m.found /\ m.group = <<"0x20000133">>
      THEN Raise("CertificateChainNotChecked", stdout)
    ELSE IF m.found /\ m.group = <<"0x200001F9">>
      THEN Raise("InvalidSignature", stdout)
    ELSE Raise("ShellCommandError", stdout)

\* Cryptcp.vsignf of src/utils.py: the method returns nothing
VsignfResult(r) == IF r.kind = "raise" THEN r ELSE RetNone

\* StandaloneVerifyResult with a bare "except:" around run_command
StandaloneVerifyResultCatchAll(r) ==
  IF r.kind = "raise" THEN RetBool(FALSE) ELSE RetBool(TRUE)

\* Cryptcp.verify of src/utils.py: the try/except around run_command
StandaloneVerifyResult(r) ==
  IF r.kind = "raise"
    THEN IF r.exc \in {"CertificateChainNotChecked", "InvalidSignature"}
           THEN RetBool(FALSE)
           ELSE r
    ELSE RetBool(TRUE)

-----------------------------------------------------------------------------
(* What the cryptcp tool prints *)

\* the status line that ends an output of cryptcp
StatusLine(name, code) == <<"[", name, ":", " ", code, "]", NL>>

\* the status lines of the model: none, success in the three spellings the
\* two variants look for, the three known error codes in both letter cases,
\* and codes no variant knows
StatusLines ==
  {<<>>}
  \cup {StatusLine("ErrorCode", c) :
          c \in {"0x00000000", "0x20000133", "0x200001F9", "0x200001f9",
                 "0x2000012D", "0x2000012d", "0x20000136"}}
  \cup {StatusLine("ResultCode", c) : c \in {"0", "0x2000012D", "7"}}
  \cup {StatusLine("ReturnCode", c) : c \in {"0"}}

SignerLine == <<"Signer", ":", " ", "CN=User", ",", " ", "O=Org", NL>>

\* one run of cryptcp: at most one status line, as the tool prints it
CryptcpRuns ==
  {[stdout |-> (IF b THEN <<"CryptCP 4.0", NL>> ELSE <<>>)
               \o (IF sg THEN SignerLine ELSE <<>>) \o st,
    stderr |-> e] :
     b \in {TRUE}, sg \in BOOLEAN, st \in StatusLines,
     e \in {<<>>, <<"Error", ":", " ", "bad key", NL>>}}
  \cup {[stdout |-> <<>>, stderr |-> e] :
          e \in {<<>>, <<"Error", ":", " ", "bad key", NL>>}}

\* os.path.dirname and os.path.join on the paths of the model
Dirname(path) == IF path = "/d/f.txt" THEN "/d" ELSE ""
Join(dir, name) == IF dir = "/d" THEN "/d/" \o name ELSE name

\* a Cryptcp call of the packaged variant
CryptcpCall(op, flags, params, kw, run) ==
  [variant |-> "packaged", cls |-> "Cryptcp", op |-> op, limit |-> PyNone,
   named |-> NamedParams(kw), flags |-> flags,
   stdout |-> run.stdout, stderr |-> run.stderr, blocks |-> <<>>,
   cmd |-> RunCommandCmd(binary["Cryptcp"], CASE op = "sign" -> "-signf"
                                              [] op = "verify" -> "-vsignf"
                                              [] op = "vsignf" -> "-vsignf"
                                              [] op = "verifyMessage" -> "-verify",
                         params, kw)]

\* the arguments verify and verifyMessage build from errchain, norev and dn
VerifyArgs(errchain, norev, dn) ==
  <<IF errchain THEN "-errchain" ELSE "-nochain">>
  \o (IF norev THEN <<"-norev">> ELSE <<>>)
  \o (IF dn THEN <<"-dn 'CN=User'">> ELSE <<>>)

FlagSet(names, values) == {names[i] : i \in {k \in 1..Len(names) : values[k]}}

\* Cryptcp.sign(filename, thumbprint, cert)
CryptcpSign ==
  /\ pc = "idle"
  /\ \E cert \in BOOLEAN, run \in CryptcpRuns :
       LET filename == "/d/f.txt"
           args == <<filename>> \o (IF cert THEN <<"-cert">> ELSE <<>>)
           kw == [k \in {"dir", "thumbprint"} |->
                    IF k = "dir" THEN PyStr(Dirname(filename)) ELSE PyStr("a1b2")]
       IN Finish(CryptcpCall("sign", FlagSet(<<"cert">>, <<cert>>), args, kw, run),
                 CryptcpParseResponse(run.stdout, run.stderr),
                 SignResult(CryptcpParseResponse(run.stdout, run.stderr)))

\* Cryptcp.verify(sgn_dir, cert_filename, filename, errchain, norev, dn)
CryptcpVerify ==
  /\ pc = "idle"
  /\ \E errchain \in BOOLEAN, norev \in BOOLEAN, dn \in BOOLEAN,
        run \in CryptcpRuns :
       LET sgn_dir == "/d"
           args == <<Join(sgn_dir, "f.txt")>> \o VerifyArgs(errchain, norev, dn)
           kw == [k \in {"dir", "f"} |->
                    IF k = "dir" THEN PyStr(sgn_dir)
                    ELSE PyStr(Join(sgn_dir, "cert.cer"))]
       IN Finish(CryptcpCall("verify",
                             FlagSet(<<"errchain", "norev", "dn">>,
                                     <<errchain, norev, dn>>), args, kw, run),
                 CryptcpParseResponse(run.stdout, run.stderr),
                 VerifyResult(CryptcpParseResponse(run.stdout, run.stderr)))

\* Cryptcp.verifyMessage(cert_path, file_path, data_path, errchain, norev, dn,
\* returnCode)
CryptcpVerifyMessage ==
  /\ pc = "idle"
  /\ \E errchain \in BOOLEAN, norev \in BOOLEAN, dn \in BOOLEAN,
        returnCode \in BOOLEAN, run \in CryptcpRuns :
       LET args == <<"/d/f.txt", "/d/data">> \o VerifyArgs(errchain, norev, dn)
           \* os.path.join(cert_path), of one path, is that path
           kw == [k \in {"f"} |-> PyStr("/d/cert.cer")]
       IN Finish(CryptcpCall("verifyMessage",
                             FlagSet(<<"errchain", "norev", "dn", "returnCode">>,
                                     <<errchain, norev, dn, returnCode>>),
                             args, kw, run),
                 CryptcpParseResponse(run.stdout, run.stderr),
                 VerifyMessageResult(CryptcpParseResponse(run.stdout, run.stderr),
                                     returnCode))

\* Cryptcp.vsignf(*args, **kwargs) of src/utils.py
StandaloneVsignf ==
  /\ pc = "idle"
  /\ \E run \in CryptcpRuns :
       LET c == CryptcpCall("vsignf", {}, <<"/d/f.txt">>,
                            [k \in {"dir"} |-> PyStr("/d")], run)
       IN Finish([c EXCEPT !.variant = "standalone"],
                 StandaloneParseResponse(run.stdout, run.stderr),
                 VsignfResult(StandaloneParseResponse(run.stdout, run.stderr)))

\* Cryptcp.verify(sgn_dir, cert_filename, filename, errchain) of src/utils.py
StandaloneVerify ==
  /\ pc = "idle"
  /\ \E errchain \in BOOLEAN, run \in CryptcpRuns :
       LET sgn_dir == "/d"
           args == <<Join(sgn_dir, "f.txt"),
                     IF errchain THEN "-errchain" ELSE "-nochain">>
           kw == [k \in {"dir", "f"} |->
                    IF k = "dir" THEN PyStr(sgn_dir)
                    ELSE PyStr(Join(sgn_dir, "cert.cer"))]
           c == CryptcpCall("verify", FlagSet(<<"errchain">>, <<errchain>>),
                            args, kw, run)
       IN Finish([c EXCEPT !.variant = "standalone"],
                 StandaloneParseResponse(run.stdout, run.stderr),
                 StandaloneVerifyResult(
                   StandaloneParseResponse(run.stdout, run.stderr)))

\* the calls the caller may keep for a later comparison
Memorable(c) ==
  /\ c.variant = "packaged"
  /\ c.stderr = <<>>
  /\ \/ c.op = "verify" /\ c.flags = {"errchain"}
        /\ Has(c.stdout, "Signer") /\ Has(c.stdout, "ErrorCode")
     \/ c.op = "get" /\ c.blocks \in {<<1>>, <<4>>}
        /\ <<"store", "uMy">> \in c.named

\* the call is over: the caller has its value or its exception, and may keep both
Return ==
  /\ pc = "done"
  /\ pc' = "idle"
  /\ call' = NoCall
  /\ ran' = NoOutcome
  /\ outcome' = NoOutcome
  /\ \/ UNCHANGED seen
     \/ /\ seen = NoSeen
        /\ Memorable(call)
        /\ seen' = [call |-> call, outcome |-> outcome]
  /\ UNCHANGED binary

Next ==
  \/ CertmgrList
  \/ CertmgrGet
  \/ CertmgrInstDelete
  \/ CryptcpSign
  \/ CryptcpVerify
  \/ CryptcpVerifyMessage
  \/ StandaloneVsignf
  \/ StandaloneVerify
  \/ Return

Spec == Init /\ [][Next]_vars

-----------------------------------------------------------------------------
(* The claims *)

Done(cls, variant) == pc = "done" /\ call.cls = cls /\ call.variant = variant

\* the output carries the status line "[<name>: <code>]"
Prints(name, code) == Contains(call.stdout, <<"[", name, ":", " ", code, "]">>)

\* the output carries a status line of the packaged variant with this code
Reports(code) == Prints("ErrorCode", code) \/ Prints("ResultCode", code)

\* the codes of the status lines of the model
PrintedCodes ==
  {"0", "7", "0x00000000", "0x20000133", "0x200001F9", "0x200001f9",
   "0x2000012D", "0x2000012d", "0x20000136"}

ZeroCodes == {"0", "0x00000000"}

KnownCodes ==
  {"0x20000133", "0x200001F9", "0x200001f9", "0x2000012D", "0x2000012d"}

\* C1: in the packaged Cryptcp, an operation whose output reports a known
\* error code, in either letter case, raises that code's exception:
\* 0x20000133 CertificateChainNotChecked, 0x200001F9 InvalidSignature,
\* 0x2000012D CertificatesNotFound.
C1_KnownCodeRaisesItsException ==
  Done("Cryptcp", "packaged") =>
    /\ Reports("0x20000133") =>
         outcome = Raise("CertificateChainNotChecked", call.stdout)
    /\ Reports("0x200001F9") \/ Reports("0x200001f9") =>
         outcome = Raise("InvalidSignature", call.stdout)
    /\ Reports("0x2000012D") \/ Reports("0x2000012d") =>
         outcome = Raise("CertificatesNotFound", call.stdout)

C1_Witness ==
  /\ Done("Cryptcp", "packaged")
  /\ call.op = "verifyMessage"
  /\ "returnCode" \in call.flags
  /\ Prints("ErrorCode", "0x200001F9")
  /\ outcome.exc = "InvalidSignature"

\* C2: for a Certmgr operation the run of the tool is decided by stderr:
\* empty stderr hands stdout unchanged to the caller of run_command, stderr
\* that starts with 'Empty certificate list' hands it None, any other stderr
\* raises ShellCommandError with that stderr and the operation returns nothing.
C2_StderrDecidesCertmgrRun ==
  (pc = "done" /\ call.cls = "Certmgr") =>
    /\ call.stderr = <<>> => ran = RetText(call.stdout)
    /\ (call.stderr # <<>> /\ Head(call.stderr) = "Empty certificate list") =>
         ran = RetNone
    /\ (call.stderr # <<>> /\ Head(call.stderr) # "Empty certificate list") =>
         /\ ran = Raise("ShellCommandError", call.stderr)
         /\ outcome = ran
    /\ call.op \in {"inst", "delete"} => outcome = ran

C2_Witness ==
  /\ pc = "done" /\ call.cls = "Certmgr" /\ call.op = "inst"
  /\ call.stderr = <<"Error", ":", " ", "Empty certificate list", NL>>
  /\ call.stdout # <<>>
  /\ outcome.exc = "ShellCommandError"

\* C3: a Cryptcp operation whose tool run wrote to stderr and whose stdout
\* reports none of the three known error codes raises ShellCommandError.
C3_StderrIsGenericFailure ==
  (pc = "done" /\ call.cls = "Cryptcp" /\ call.stderr # <<>>
     /\ \A c \in KnownCodes : ~Reports(c)) =>
    (outcome.kind = "raise" /\ outcome.exc = "ShellCommandError")

\* the sample blocks bs, as certificates
ExpectedCerts(bs) == [i \in 1..Len(bs) |-> SampleBlocks[bs[i]].cert]

\* the first m of the blocks bs can be read by the variant
Readable(bs, variant, m) ==
  \A i \in 1..m : variant \in SampleBlocks[bs[i]].wellformed

\* the tool printed the listing of call.blocks and nothing on stderr
IsListing ==
  /\ call.stderr = <<>>
  /\ \E f \in BOOLEAN : call.stdout = Listing(call.blocks, f)

NothingListed ==
  \/ call.stderr # <<>> /\ Head(call.stderr) = "Empty certificate list"
  \/ call.stdout = <<>> /\ call.stderr = <<>>

\* C5 as written: Certmgr.get returns None when the tool listed nothing and
\* otherwise returns the first certificate of the list.
C5_GetReturnsFirstOtherwise ==
  (pc = "done" /\ call.op = "get" /\ outcome.kind = "return"
     /\ ~NothingListed) =>
    outcome.vtype = "Certificate"

\* C5, amended: Certmgr.list, when it returns, returns a list and never None,
\* the empty list when the tool listed nothing; Certmgr.get returns None when
\* the tool listed nothing and whenever the list is empty (stdout without a
\* certificate block), and the first certificate of the list for the given
\* thumbprint and store when the list is not empty.
C5_ListAndGet ==
  (pc = "done" /\ call.cls = "Certmgr") =>
    /\ (call.op = "list" /\ outcome.kind = "return") => outcome.vtype = "list"
    /\ (call.op = "list" /\ NothingListed) => outcome = RetList(<<>>)
    /\ (call.op = "get" /\ NothingListed) => outcome = RetNone
    /\ (call.op = "get" /\ IsListing /\ outcome.kind = "return") =>
         /\ outcome = IF call.blocks = <<>> THEN RetNone
                      ELSE RetCert(SampleBlocks[call.blocks[1]].cert)
         /\ \E st \in {"uMy", "My"} :
              call.cmd.named = {<<"thumbprint", "a1b2">>, <<"store", st>>}

C5_Witness ==
  /\ pc = "done" /\ call.op = "get" /\ IsListing
  /\ call.blocks = <<2, 1>>
  /\ outcome = RetCert(SampleBlocks[2].cert)

C7_ReturnsPrintedCode ==
  (Done("Cryptcp", "packaged") /\ call.op = "verifyMessage"
     /\ "returnCode" \in call.flags) =>
    \A c \in PrintedCodes : Reports(c) => outcome = RetText(<<LowerTok(c)>>)

\* C7, amended: verifyMessage with returnCode=True returns the lower-cased
\* code of the marker, instead of the signer data, for every output whose
\* marker carries a zero code ('0' or '0x00000000'), and it returns for no
\* other output.
C7_ReturnsZeroCode ==
  (Done("Cryptcp", "packaged") /\ call.op = "verifyMessage"
     /\ "returnCode" \in call.flags) =>
    /\ \A c \in ZeroCodes : Reports(c) => outcome = RetText(<<LowerTok(c)>>)
    /\ outcome.kind = "return" =>
         \E c \in ZeroCodes : Reports(c) /\ outcome = RetText(<<c>>)

C7_Witness ==
  /\ Done("Cryptcp", "packaged") /\ call.op = "verifyMessage"
  /\ "returnCode" \in call.flags
  /\ Has(call.stdout, "Signer")
  /\ Prints("ErrorCode", "0x00000000")
  /\ outcome = RetText(<<"0x00000000">>)

\* C8: in the packaged Cryptcp, _parse_response returns only when the result
\* code is zero, and then returns stdout unchanged; sign, verify and
\* verifyMessage never complete on another output.
C8_ReturnsOnlyOnZeroCode ==
  Done("Cryptcp", "packaged") =>
    /\ ran.kind = "return" =>
         (ran = RetText(call.stdout) /\ \E c \in ZeroCodes : Reports(c))
    /\ outcome.kind = "return" => \E c \in ZeroCodes : Reports(c)

\* C9: Certmgr.list with limit=k returns the first min(k, n) certificates of
\* an output of n blocks when k >= 1 and all n when limit is None or 0,
\* whatever the blocks after the k-th hold; limit is not among the named
\* arguments of the command.
C9_LimitTakesFirstBlocks ==
  (pc = "done" /\ call.op = "list") =>
    /\ \A p \in call.cmd.named : p[1] # "limit"
    /\ IsListing =>
         LET bs == call.blocks
             n == Len(bs)
             m == IF Truthy(call.limit) /\ call.limit.int < n
                    THEN call.limit.int ELSE n
         IN Readable(bs, call.variant, m) =>
              outcome = RetList(SubSeq(ExpectedCerts(bs), 1, m))

C9_Witness ==
  /\ pc = "done" /\ call.op = "list" /\ IsListing
  /\ call.limit = PyInt(1)
  /\ <<"limit", "1">> \in call.named
  /\ call.blocks = <<1, 4>>
  /\ outcome = RetList(<<SampleBlocks[1].cert>>)

====
